---- MODULE Spec2Model ----
(***************************************************************************)
(* A model of rwfs (src/src/index.ts): reWriteFileSync reads a file,       *)
(* splits it into chunks on a separator, maps the caller's rules over the  *)
(* chunks, filters and reorders the results and writes them back.          *)
(* Strings are sequences of one-character strings; "n" stands for the      *)
(* newline character.                                                      *)
(***************************************************************************)
EXTENDS Integers, Sequences, FiniteSets, TLC

VARIABLES disk, opts, pc, fileContent, chunks, idx, bailed, updatedChunks,
          finalChunks, log, io, preview

vars == <<disk, opts, pc, fileContent, chunks, idx, bailed, updatedChunks,
          finalChunks, log, io, preview>>

\* ------------------------------------------------------------------ bounds

MaxLen == 4

MaxRules == 2

Chars == {"a", "n"}

Contents == UNION {[1..k -> Chars] : k \in 0..MaxLen}

\* ----------------------------------------------------------------- strings

Newline == <<"n">>

\* a rotation by one in place of the reversal
ReverseRotates(s) == IF Len(s) = 0 THEN s ELSE Tail(s) \o <<Head(s)>>

\* Array.prototype.reverse
Reverse(s) == [i \in 1..Len(s) |-> s[Len(s) + 1 - i]]

\* true when sep occurs in s at position i (1-based)
OccursAt(s, sep, i) ==
    /\ i + Len(sep) - 1 <= Len(s)
    /\ \A k \in 1..Len(sep) : s[i + k - 1] = sep[k]

\* a scan that steps one character past a match instead of past the separator
RECURSIVE SplitAtOverlapping(_, _, _, _)
SplitAtOverlapping(s, sep, i, cur) ==
    IF i > Len(s) THEN <<cur>>
    ELSE IF OccursAt(s, sep, i)
         THEN <<cur>> \o SplitAtOverlapping(s, sep, i + 1, <<>>)
         ELSE SplitAtOverlapping(s, sep, i + 1, Append(cur, s[i]))

\* String.prototype.split with a non-empty string separator: left to right,
\* non-overlapping occurrences, the separator discarded
RECURSIVE SplitAt(_, _, _, _)
SplitAt(s, sep, i, cur) ==
    IF i > Len(s) THEN <<cur>>
    ELSE IF OccursAt(s, sep, i)
         THEN <<cur>> \o SplitAt(s, sep, i + Len(sep), <<>>)
         ELSE SplitAt(s, sep, i + 1, Append(cur, s[i]))

Split(s, sep) == SplitAt(s, sep, 1, <<>>)

\* Array.prototype.join on an array of strings
RECURSIVE Join(_, _)
Join(ss, sep) ==
    IF Len(ss) = 0 THEN <<>>
    ELSE IF Len(ss) = 1 THEN ss[1]
    ELSE ss[1] \o sep \o Join(Tail(ss), sep)

UpperChar(c) == IF c = "a" THEN "A" ELSE IF c = "m" THEN "M" ELSE c

ToUpperCase(s) == [i \in 1..Len(s) |-> UpperChar(s[i])]

\* ----------------------------------------------------------------- options

\* a default of two newlines in place of one
SeparatorDefaultsToBlankLine(o) ==
    IF o.separator = <<>> THEN <<"n", "n">> ELSE o.separator

\* options.separator || "\n": an absent or empty separator is the newline
Separator(o) == IF o.separator = <<>> THEN Newline ELSE o.separator

RemoveEmpty(o) == o.removeEmpty

ShouldBailOnFirstMatch(o) == o.bailOnFirstMatch = TRUE

ShouldInvertChunks(o) == o.invert

ShouldPreserveInvertedOrder(o) == o.preserveInvertedOrder

\* a dispatch that looks for the constraint/update pair first
ModePrefersPair(o) ==
    IF o.hasConstraint /\ o.hasUpdate THEN "single"
    ELSE IF o.updatesIsArray THEN "multi"
    ELSE "none"

\* the branch of the dispatch at index.ts:153-183
Mode(o) ==
    IF o.updatesIsArray THEN "multi"
    ELSE IF o.hasConstraint /\ o.hasUpdate THEN "single"
    ELSE "none"

\* index.ts:20: the limit taken when the option is absent or falsy
DefaultDebugOutputLimit == 10

\* the values of the debugOutputLimit option: absent, a number, or an object
\* literal with start and end
NoLimit == [kind |-> "absent", n |-> 0, start |-> 0, end |-> 0]

NumberLimit(n) == [kind |-> "number", n |-> n, start |-> 0, end |-> 0]

RangeLimit(s, e) == [kind |-> "range", n |-> 0, start |-> s, end |-> e]

\* index.ts:20: options.debugOutputLimit || 10 (zero is falsy)
DebugOutputLimit(o) ==
    IF \/ o.debugOutputLimit.kind = "absent"
       \/ o.debugOutputLimit.kind = "number" /\ o.debugOutputLimit.n = 0
    THEN NumberLimit(DefaultDebugOutputLimit)
    ELSE o.debugOutputLimit

\* index.ts:21
ShouldPrintChunks(o) == o.debug

\* ------------------------------------------------------- update results

Text(t) == [kind |-> "text", text |-> t]

DeleteChunk == [kind |-> "delete", text |-> <<>>]

Undefined == [defined |-> FALSE, text |-> <<>>]

Defined(t) == [defined |-> TRUE, text |-> t]

\* --------------------------------------------------------------- rules
\* The caller's closures, drawn from a catalogue of functions of the context.

ConstraintKinds == {"always", "never", "chunkIsA", "indexIsZero"}

\* a constraint value that is not callable (typeof constraint !== "function")
NotAFunction == "notAFunction"

IsFunction(kind) == kind # NotAFunction

UpdateKinds == {"identity", "upper", "prefix", "delete", "empty", "prev"}

\* a rule function that works on the first chunk and throws on the second
\* (as a constraint it holds, as an update it upper-cases, where it returns)
ThrowsAtOne == "throwsAtOne"

\* the function of this kind throws when called with the context ctx
Throws(kind, ctx) == kind = ThrowsAtOne /\ ctx.index = 1

ConstraintFn(kind, ctx, sep) ==
    CASE kind = "always" -> TRUE
      [] kind = ThrowsAtOne -> TRUE
      [] kind = "never" -> FALSE
      [] kind = "chunkIsA" -> ctx.chunk = <<"a">>
      [] kind = "indexIsZero" -> ctx.index = 0

UpdateFn(kind, ctx, sep) ==
    CASE kind = "identity" -> Text(ctx.chunk)
      [] kind = "upper" -> Text(ToUpperCase(ctx.chunk))
      [] kind = ThrowsAtOne -> Text(ToUpperCase(ctx.chunk))
      [] kind = "prefix" -> Text(<<"m">> \o ctx.chunk)
      [] kind = "delete" -> DeleteChunk
      [] kind = "empty" -> Text(<<>>)
      [] kind = "prev" ->
           IF ctx.prevChunk.defined THEN Text(ctx.prevChunk.text)
           ELSE Text(ctx.chunk)

\* ------------------------------------------------------------- the engine

\* a split that never reverses
InitialChunksNeverInverts(content, o) == Split(content, Separator(o))

\* index.ts:30-32
InitialChunks(content, o) ==
    IF ShouldInvertChunks(o)
    THEN Reverse(Split(content, Separator(o)))
    ELSE Split(content, Separator(o))

\* a context whose second chunk is given no previous chunk
CreateContextLateNeighbour(chs, i) ==
    [chunk |-> chs[i + 1],
     index |-> i,
     prevChunk |-> IF i > 1 THEN Defined(chs[i]) ELSE Undefined,
     nextChunk |-> IF i < Len(chs) - 1 THEN Defined(chs[i + 2]) ELSE Undefined]

\* index.ts:144-149, i is the zero-based index
CreateContext(chs, i) ==
    [chunk |-> chs[i + 1],
     index |-> i,
     prevChunk |-> IF i > 0 THEN Defined(chs[i]) ELSE Undefined,
     nextChunk |-> IF i < Len(chs) - 1 THEN Defined(chs[i + 2]) ELSE Undefined]

Call(fn, ctx, r) ==
    [fn |-> fn, index |-> ctx.index, chunk |-> ctx.chunk, rule |-> r,
     prevChunk |-> ctx.prevChunk, nextChunk |-> ctx.nextChunk]

\* one iteration of the single-rule map in which the bail flag is never raised
SingleStepNeverBails(chs, i, o, b) ==
    LET ctx == CreateContext(chs, i)
        visit == <<Call("createContext", ctx, 0)>>
    IN  IF ~IsFunction(o.constraint)
        THEN [threw |-> TRUE, result |-> Text(ctx.chunk), bailed |-> b, calls |-> visit]
        ELSE IF ConstraintFn(o.constraint, ctx, Separator(o))
        THEN [threw |-> FALSE,
              result |-> UpdateFn(o.update, ctx, Separator(o)),
              bailed |-> FALSE,
              calls |-> visit \o <<Call("constraint", ctx, 0), Call("update", ctx, 0)>>]
        ELSE [threw |-> FALSE, result |-> Text(ctx.chunk), bailed |-> b,
              calls |-> visit \o <<Call("constraint", ctx, 0)>>]

\* one iteration of the single-rule map, index.ts:171-179; calling a
\* constraint that is not a function raises a TypeError, and what a
\* constraint or an update throws leaves the map
SingleStep(chs, i, o, b) ==
    LET ctx == CreateContext(chs, i)
        visit == <<Call("createContext", ctx, 0)>>
    IN  IF b
        THEN [threw |-> FALSE, result |-> Text(ctx.chunk), bailed |-> b, calls |-> visit]
        ELSE IF ~IsFunction(o.constraint)
        THEN [threw |-> TRUE, result |-> Text(ctx.chunk), bailed |-> b, calls |-> visit]
        ELSE IF Throws(o.constraint, ctx)
        THEN [threw |-> TRUE, result |-> Text(ctx.chunk), bailed |-> b,
              calls |-> visit \o <<Call("constraint", ctx, 0)>>]
        ELSE IF ConstraintFn(o.constraint, ctx, Separator(o)) /\ Throws(o.update, ctx)
        THEN [threw |-> TRUE, result |-> Text(ctx.chunk), bailed |-> b,
              calls |-> visit \o <<Call("constraint", ctx, 0), Call("update", ctx, 0)>>]
        ELSE IF ConstraintFn(o.constraint, ctx, Separator(o))
        THEN [threw |-> FALSE,
              result |-> UpdateFn(o.update, ctx, Separator(o)),
              bailed |-> ShouldBailOnFirstMatch(o) /\ TRUE,
              calls |-> visit \o <<Call("constraint", ctx, 0), Call("update", ctx, 0)>>]
        ELSE [threw |-> FALSE, result |-> Text(ctx.chunk), bailed |-> b,
              calls |-> visit \o <<Call("constraint", ctx, 0)>>]

\* a rule loop that leaves at the first rule that matches
RECURSIVE RuleLoopStopsAtMatch(_, _, _, _, _, _)
RuleLoopStopsAtMatch(ctx, rules, k, sep, cur, calls) ==
    IF k > Len(rules) THEN [threw |-> FALSE, result |-> cur, calls |-> calls]
    ELSE IF ~IsFunction(rules[k].constraint)
    THEN RuleLoopStopsAtMatch(ctx, rules, k + 1, sep, cur, calls)
    ELSE IF ConstraintFn(rules[k].constraint, ctx, sep)
    THEN [threw |-> FALSE,
          result |-> UpdateFn(rules[k].update, ctx, sep),
          calls |-> calls \o <<Call("constraint", ctx, k), Call("update", ctx, k)>>]
    ELSE RuleLoopStopsAtMatch(ctx, rules, k + 1, sep, cur,
                              calls \o <<Call("constraint", ctx, k)>>)

\* the rule loop of the multi-rule map, index.ts:158-165, from rule k on:
\* cur is newChunk, calls the invocations made so far; what a constraint or
\* an update throws leaves the loop and the map
RECURSIVE RuleLoop(_, _, _, _, _, _)
RuleLoop(ctx, rules, k, sep, cur, calls) ==
    IF k > Len(rules) THEN [threw |-> FALSE, result |-> cur, calls |-> calls]
    ELSE IF ~IsFunction(rules[k].constraint)
    THEN RuleLoop(ctx, rules, k + 1, sep, cur, calls)
    ELSE IF Throws(rules[k].constraint, ctx)
    THEN [threw |-> TRUE, result |-> cur,
          calls |-> calls \o <<Call("constraint", ctx, k)>>]
    ELSE IF ConstraintFn(rules[k].constraint, ctx, sep) /\ Throws(rules[k].update, ctx)
    THEN [threw |-> TRUE, result |-> cur,
          calls |-> calls \o <<Call("constraint", ctx, k), Call("update", ctx, k)>>]
    ELSE IF ConstraintFn(rules[k].constraint, ctx, sep)
    THEN RuleLoop(ctx, rules, k + 1, sep, UpdateFn(rules[k].update, ctx, sep),
                  calls \o <<Call("constraint", ctx, k), Call("update", ctx, k)>>)
    ELSE RuleLoop(ctx, rules, k + 1, sep, cur,
                  calls \o <<Call("constraint", ctx, k)>>)

\* one iteration of the multi-rule map, index.ts:155-167
MultiStep(chs, i, o) ==
    LET ctx == CreateContext(chs, i)
    IN  RuleLoop(ctx, o.updates, 1, Separator(o), Text(ctx.chunk),
                 <<Call("createContext", ctx, 0)>>)

\* empty results dropped whether or not removeEmpty is set
DropFalsyAlways(upd, o) ==
    SelectSeq(upd, LAMBDA u : u.kind = "delete" \/ u.text # <<>>)

\* a filter that keeps the empty results even with removeEmpty
DropFalsyNever(upd, o) == upd

\* index.ts:186-188: with removeEmpty, keep what Boolean() holds true
\* (an object, the deletion marker included, is truthy)
DropFalsy(upd, o) ==
    IF RemoveEmpty(o)
    THEN SelectSeq(upd, LAMBDA u : u.kind = "delete" \/ u.text # <<>>)
    ELSE upd

\* a filter that lets the deletion markers through
DropObjectsKeepsAll(upd) == upd

\* index.ts:189: drop what is an object (the deletion markers)
DropObjects(upd) == SelectSeq(upd, LAMBDA u : u.kind # "delete")

\* the results written in processing order whatever the options say
RestoreOrderNever(fin, o) == fin

\* the original order restored whenever invert is set
RestoreOrderIgnoresPreserve(fin, o) ==
    IF ShouldInvertChunks(o) THEN Reverse(fin) ELSE fin

\* the order reversed back whenever preserveInvertedOrder is not set
RestoreOrderUnlessPreserve(fin, o) ==
    IF ~ShouldPreserveInvertedOrder(o) THEN Reverse(fin) ELSE fin

\* index.ts:193-195
RestoreOrder(fin, o) ==
    IF ShouldInvertChunks(o) /\ ~ShouldPreserveInvertedOrder(o)
    THEN Reverse(fin)
    ELSE fin

\* index.ts:185-195: the texts of finalChunks
Assemble(upd, o) ==
    LET kept == RestoreOrder(DropObjects(DropFalsy(upd, o)), o)
    IN  [i \in 1..Len(kept) |-> kept[i].text]

\* index.ts:171-179: the single-rule map from index i on, bail flag b
RECURSIVE SingleMapFrom(_, _, _, _)
SingleMapFrom(chs, i, o, b) ==
    IF i >= Len(chs) THEN <<>>
    ELSE LET st == SingleStep(chs, i, o, b)
         IN  <<st.result>> \o SingleMapFrom(chs, i + 1, o, st.bailed)

\* index.ts:151-183: updatedChunks of a whole run over the chunks chs (a run
\* whose rule functions are callable)
UpdatedChunksOf(chs, o) ==
    CASE Mode(o) = "multi" -> [j \in 1..Len(chs) |-> MultiStep(chs, j - 1, o).result]
      [] Mode(o) = "single" -> SingleMapFrom(chs, 0, o, FALSE)
      [] OTHER -> [j \in 1..Len(chs) |-> Text(chs[j])]

\* index.ts:168-179: the invocations of the single-rule map from index i
\* on, up to the end or to the iteration that throws
RECURSIVE SingleCallsFrom(_, _, _, _)
SingleCallsFrom(chs, i, o, b) ==
    IF i >= Len(chs) THEN <<>>
    ELSE LET st == SingleStep(chs, i, o, b)
         IN  IF st.threw THEN st.calls
             ELSE st.calls \o SingleCallsFrom(chs, i + 1, o, st.bailed)

\* index.ts:153-167: the invocations of the multi-rule map from index i
\* on, up to the end or to the iteration that throws
RECURSIVE MultiCallsFrom(_, _, _)
MultiCallsFrom(chs, i, o) ==
    IF i >= Len(chs) THEN <<>>
    ELSE LET st == MultiStep(chs, i, o)
         IN  IF st.threw THEN st.calls
             ELSE st.calls \o MultiCallsFrom(chs, i + 1, o)

\* index.ts:151-183: the invocations of a whole run over the chunks chs
CallsOf(chs, o) ==
    CASE Mode(o) = "multi" -> MultiCallsFrom(chs, 0, o)
      [] Mode(o) = "single" -> SingleCallsFrom(chs, 0, o, FALSE)
      [] OTHER -> <<>>

\* index.ts:29-32, 151-197: what a run with options o writes over content
Rewrite(content, o) ==
    Join(Assemble(UpdatedChunksOf(InitialChunks(content, o), o), o), Separator(o))

\* ------------------------------------------------------- debug preview

\* the concatenation of the strings of ss
RECURSIVE Concat(_)
Concat(ss) == IF ss = <<>> THEN <<>> ELSE Head(ss) \o Concat(Tail(ss))

\* index.ts:208: the marker getChunks splits on
Token == <<"l", "o", "f", "o", "-", "-">>

\* String.prototype.replaceAll with a string pattern: the occurrences of pat
\* in s from position i on, left to right and without overlap, replaced by by
RECURSIVE ReplaceFrom(_, _, _, _)
ReplaceFrom(s, pat, by, i) ==
    IF i > Len(s) THEN <<>>
    ELSE IF OccursAt(s, pat, i)
    THEN by \o ReplaceFrom(s, pat, by, i + Len(pat))
    ELSE <<s[i]>> \o ReplaceFrom(s, pat, by, i + 1)

ReplaceAll(s, pat, by) == ReplaceFrom(s, pat, by, 1)

\* the marker put after each separator
GetChunksMarksAfter(content, sep, normalize) ==
    LET normalizedContent ==
            IF normalize THEN ReplaceAll(content, Newline, <<"L", "F">>)
            ELSE content
    IN  Split(ReplaceAll(normalizedContent, sep, sep \o Token), Token)

\* index.ts:207-213: the marker is put in front of each separator and the
\* content split on the marker
GetChunks(content, sep, normalize) ==
    LET normalizedContent ==
            IF normalize THEN ReplaceAll(content, Newline, <<"L", "F">>)
            ELSE content
    IN  Split(ReplaceAll(normalizedContent, sep, Token \o sep), Token)

Max(a, b) == IF a >= b THEN a ELSE b

Min(a, b) == IF a <= b THEN a ELSE b

\* the preview of a run that prints none
NoPreview == [printed |-> FALSE]

\* a preview whose range is taken as given, neither clamped nor swapped
DebugPreviewUnclamped(content, o) ==
    LET chs == GetChunks(content, Separator(o), FALSE)
        totalChunks == Len(chs)
        limit == DebugOutputLimit(o)
        startIndex == IF limit.kind = "range" THEN limit.start - 1 ELSE 0
        endIndex ==
            IF limit.kind = "range" THEN limit.end - 1
            ELSE Min(totalChunks - 1, Max(0, limit.n - 1))
        chunksToShow ==
            SubSeq(chs, Max(1, startIndex + 1), Min(totalChunks, endIndex + 1))
        shouldClamp ==
            IF limit.kind = "number" THEN totalChunks > limit.n
            ELSE ~(startIndex = 0 /\ endIndex = totalChunks - 1)
    IN  [printed |-> TRUE,
         totalChunks |-> totalChunks,
         notice |->
            IF limit.kind = "number" /\ shouldClamp
            THEN [kind |-> "limited", first |-> limit.n,
                  more |-> totalChunks - limit.n]
            ELSE [kind |-> "showing", from |-> startIndex + 1,
                  to |-> endIndex + 1, of |-> totalChunks,
                  shown |-> endIndex - startIndex + 1],
         shown |-> [k \in 1..Len(chunksToShow) |->
                      [number |-> startIndex + (k - 1) + 1,
                       chunk |-> chunksToShow[k]]],
         trailer |->
            IF limit.kind = "number" /\ shouldClamp
            THEN [printed |-> TRUE, more |-> totalChunks - limit.n]
            ELSE [printed |-> FALSE, more |-> 0]]

\* a preview that gives the truncation notice as soon as the limit is reached
DebugPreviewCountsFromOne(content, o) ==
    LET chs == GetChunks(content, Separator(o), FALSE)
        totalChunks == Len(chs)
        limit == DebugOutputLimit(o)
        lo == IF limit.kind = "range"
              THEN Max(0, Min(totalChunks - 1, limit.start - 1)) ELSE 0
        hi == IF limit.kind = "range"
              THEN Max(0, Min(totalChunks - 1, limit.end - 1))
              ELSE Min(totalChunks - 1, Max(0, limit.n - 1))
        startIndex == IF hi < lo THEN hi ELSE lo
        endIndex == IF hi < lo THEN lo ELSE hi
        chunksToShow == SubSeq(chs, startIndex + 1, endIndex + 1)
        shouldClamp ==
            IF limit.kind = "number" THEN totalChunks >= limit.n
            ELSE ~(startIndex = 0 /\ endIndex = totalChunks - 1)
    IN  [printed |-> TRUE,
         totalChunks |-> totalChunks,
         notice |->
            IF limit.kind = "number" /\ shouldClamp
            THEN [kind |-> "limited", first |-> limit.n,
                  more |-> totalChunks - limit.n]
            ELSE [kind |-> "showing", from |-> startIndex + 1,
                  to |-> endIndex + 1, of |-> totalChunks,
                  shown |-> endIndex - startIndex + 1],
         shown |-> [k \in 1..Len(chunksToShow) |->
                      [number |-> startIndex + (k - 1) + 1,
                       chunk |-> chunksToShow[k]]],
         trailer |->
            IF limit.kind = "number" /\ shouldClamp
            THEN [printed |-> TRUE, more |-> totalChunks - limit.n]
            ELSE [printed |-> FALSE, more |-> 0]]

\* index.ts:38-140: what the debug block prints for the content read:
\* the chunk count, the notice, the numbered chunks and the trailing line
DebugPreviewOf(content, o) ==
    LET chs == GetChunks(content, Separator(o), FALSE)
        totalChunks == Len(chs)
        limit == DebugOutputLimit(o)
        \* index.ts:55-76
        lo == IF limit.kind = "range"
              THEN Max(0, Min(totalChunks - 1, limit.start - 1)) ELSE 0
        hi == IF limit.kind = "range"
              THEN Max(0, Min(totalChunks - 1, limit.end - 1))
              ELSE Min(totalChunks - 1, Max(0, limit.n - 1))
        \* index.ts:77-82
        startIndex == IF hi < lo THEN hi ELSE lo
        endIndex == IF hi < lo THEN lo ELSE hi
        visibleCount == endIndex - startIndex + 1
        chunksToShow == SubSeq(chs, startIndex + 1, endIndex + 1)
        isNumericLimit == limit.kind = "number"
        shouldDisplayAllChunks == startIndex = 0 /\ endIndex = totalChunks - 1
        shouldClamp ==
            IF isNumericLimit THEN totalChunks > limit.n
            ELSE ~shouldDisplayAllChunks
    IN  [printed |-> TRUE,
         totalChunks |-> totalChunks,
         notice |->
            IF isNumericLimit /\ shouldClamp
            THEN [kind |-> "limited", first |-> limit.n,
                  more |-> totalChunks - limit.n]
            ELSE [kind |-> "showing", from |-> startIndex + 1,
                  to |-> endIndex + 1, of |-> totalChunks,
                  shown |-> visibleCount],
         shown |-> [k \in 1..Len(chunksToShow) |->
                      [number |-> startIndex + (k - 1) + 1,
                       chunk |-> chunksToShow[k]]],
         trailer |->
            IF isNumericLimit /\ shouldClamp
            THEN [printed |-> TRUE, more |-> totalChunks - limit.n]
            ELSE [printed |-> FALSE, more |-> 0]]

\* ------------------------------------------------------------- actions

\* a call of the file system made by the run: calls is the number of rule
\* invocations logged and visited the number of chunks mapped before it
IoEvent(op, ok) == [op |-> op, ok |-> ok, calls |-> Len(log), visited |-> idx]

\* index.ts:29-32: read the file and split it
ReadFile ==
    /\ pc = "start"
    /\ fileContent' = disk
    /\ chunks' = InitialChunks(disk, opts)
    /\ io' = Append(io, IoEvent("readFileSync", TRUE))
    /\ pc' = IF opts.debug THEN "debug" ELSE "map"
    /\ UNCHANGED <<disk, opts, idx, bailed, updatedChunks, finalChunks, log,
                   preview>>

\* a failed read taken for an empty file, and the run carried on
ReadFileFailsQuietly ==
    /\ pc = "start"
    /\ io' = Append(io, IoEvent("readFileSync", FALSE))
    /\ fileContent' = <<>>
    /\ chunks' = InitialChunks(<<>>, opts)
    /\ pc' = "map"
    /\ UNCHANGED <<disk, opts, idx, bailed, updatedChunks, finalChunks, log,
                   preview>>

\* index.ts:29: readFileSync throws (no such file, no permission) and
\* nothing catches it
ReadFileFails ==
    /\ pc = "start"
    /\ io' = Append(io, IoEvent("readFileSync", FALSE))
    /\ pc' = "threw"
    /\ UNCHANGED <<disk, opts, fileContent, chunks, idx, bailed, updatedChunks,
                   finalChunks, log, preview>>

\* a debug block whose chunks replace the chunks of the run
PrintChunksSharesChunks ==
    /\ pc = "debug"
    /\ preview' = DebugPreviewOf(fileContent, opts)
    /\ chunks' = GetChunks(fileContent, Separator(opts), FALSE)
    /\ pc' = "map"
    /\ UNCHANGED <<disk, opts, fileContent, idx, bailed, updatedChunks,
                   finalChunks, log, io>>

\* index.ts:37-141: the debug block prints its preview; its chunks are a
\* constant of the block and the chunks of the run stay as they are
PrintChunks ==
    /\ pc = "debug"
    /\ preview' = DebugPreviewOf(fileContent, opts)
    /\ pc' = "map"
    /\ UNCHANGED <<disk, opts, fileContent, chunks, idx, bailed, updatedChunks,
                   finalChunks, log, io>>

\* index.ts:153-167: one chunk of the multi-rule map
MapMulti ==
    /\ pc = "map"
    /\ Mode(opts) = "multi"
    /\ idx < Len(chunks)
    /\ LET st == MultiStep(chunks, idx, opts)
       IN  /\ log' = log \o st.calls
           /\ IF st.threw
              THEN /\ pc' = "threw"
                   /\ UNCHANGED <<idx, updatedChunks>>
              ELSE /\ updatedChunks' = Append(updatedChunks, st.result)
                   /\ idx' = idx + 1
                   /\ pc' = IF idx + 1 = Len(chunks) THEN "write" ELSE "map"
    /\ UNCHANGED <<disk, opts, fileContent, chunks, bailed, finalChunks, io,
                   preview>>

\* a single-rule map that swallows what a rule throws and goes on to write
\* the results it has
MapSingleSwallowsError ==
    /\ pc = "map"
    /\ Mode(opts) = "single"
    /\ idx < Len(chunks)
    /\ LET st == SingleStep(chunks, idx, opts, bailed)
       IN  /\ log' = log \o st.calls
           /\ IF st.threw
              THEN /\ pc' = "write"
                   /\ UNCHANGED <<idx, bailed, updatedChunks>>
              ELSE /\ updatedChunks' = Append(updatedChunks, st.result)
                   /\ bailed' = st.bailed
                   /\ idx' = idx + 1
                   /\ pc' = IF idx + 1 = Len(chunks) THEN "write" ELSE "map"
    /\ UNCHANGED <<disk, opts, fileContent, chunks, finalChunks, io, preview>>

\* index.ts:168-179: one chunk of the single-rule map
MapSingle ==
    /\ pc = "map"
    /\ Mode(opts) = "single"
    /\ idx < Len(chunks)
    /\ LET st == SingleStep(chunks, idx, opts, bailed)
       IN  /\ log' = log \o st.calls
           /\ IF st.threw
              THEN /\ pc' = "threw"
                   /\ UNCHANGED <<idx, bailed, updatedChunks>>
              ELSE /\ updatedChunks' = Append(updatedChunks, st.result)
                   /\ bailed' = st.bailed
                   /\ idx' = idx + 1
                   /\ pc' = IF idx + 1 = Len(chunks) THEN "write" ELSE "map"
    /\ UNCHANGED <<disk, opts, fileContent, chunks, finalChunks, io, preview>>

\* index.ts:180-183: no rule shape, the chunks pass through
PassThrough ==
    /\ pc = "map"
    /\ Mode(opts) = "none"
    /\ updatedChunks' = [i \in 1..Len(chunks) |-> Text(chunks[i])]
    /\ idx' = Len(chunks)
    /\ pc' = "write"
    /\ UNCHANGED <<disk, opts, fileContent, chunks, bailed, finalChunks, log,
                   io, preview>>

\* index.ts:185-197: filter, restore the order, join and write
WriteFile ==
    /\ pc = "write"
    /\ finalChunks' = Assemble(updatedChunks, opts)
    /\ disk' = Join(Assemble(updatedChunks, opts), Separator(opts))
    /\ io' = Append(io, IoEvent("writeFileSync", TRUE))
    /\ pc' = "done"
    /\ UNCHANGED <<opts, fileContent, chunks, idx, bailed, updatedChunks, log,
                   preview>>

\* ------------------------------------------------------ specifications

SeparatorOptions == {<<>>, <<"n", "n">>}

SingleUpdateKinds == {"identity", "upper", "delete", "empty", "prev"}

MultiConstraintKinds == {"always", "chunkIsA"}

MultiUpdateKinds == {"upper", "prefix", "delete"}

CommonOptions ==
    [separator : SeparatorOptions, removeEmpty : BOOLEAN, invert : BOOLEAN,
     preserveInvertedOrder : BOOLEAN]

WithRules(c, bail, isArray, ups, hasC, hasU, con, upd) ==
    [separator |-> c.separator, removeEmpty |-> c.removeEmpty,
     invert |-> c.invert, preserveInvertedOrder |-> c.preserveInvertedOrder,
     bailOnFirstMatch |-> bail, updatesIsArray |-> isArray, updates |-> ups,
     hasConstraint |-> hasC, hasUpdate |-> hasU,
     constraint |-> con, update |-> upd,
     debug |-> FALSE, debugOutputLimit |-> NoLimit]

\* { constraint, update, bailOnFirstMatch? }
SingleOptions ==
    {WithRules(c, bail, FALSE, <<>>, TRUE, TRUE, con, upd) :
        c \in CommonOptions, bail \in BOOLEAN,
        con \in ConstraintKinds \cup {NotAFunction}, upd \in SingleUpdateKinds}

MultiRules == [constraint : MultiConstraintKinds, update : MultiUpdateKinds]

RuleLists == UNION {[1..k -> MultiRules] : k \in 1..MaxRules}

\* { updates: [...] }
MultiOptions ==
    {WithRules(c, FALSE, TRUE, ups, FALSE, FALSE, "never", "identity") :
        c \in CommonOptions, ups \in RuleLists}

\* neither an updates array nor both of constraint and update
NoneOptions ==
    {WithRules(c, bail, FALSE, <<>>, hasC, hasU, con, "identity") :
        c \in CommonOptions, bail \in BOOLEAN,
        hasC \in BOOLEAN, hasU \in {FALSE}, con \in {"always", NotAFunction}}
    \cup
    {WithRules(c, FALSE, FALSE, <<>>, FALSE, TRUE, "never", "upper") :
        c \in CommonOptions}

InitWith(options) ==
    /\ disk \in Contents
    /\ opts \in options
    /\ pc = "start"
    /\ fileContent = <<>>
    /\ chunks = <<>>
    /\ idx = 0
    /\ bailed = FALSE
    /\ updatedChunks = <<>>
    /\ finalChunks = <<>>
    /\ log = <<>>
    /\ io = <<>>
    /\ preview = NoPreview

InitSingle == InitWith(SingleOptions)

InitMulti == InitWith(MultiOptions)

InitNone == InitWith(NoneOptions)

Init == InitWith(SingleOptions \cup MultiOptions \cup NoneOptions)

NextSingle == ReadFile \/ MapSingle \/ WriteFile

NextMulti == ReadFile \/ MapMulti \/ WriteFile

NextNone == ReadFile \/ PassThrough \/ WriteFile

Next == ReadFile \/ MapMulti \/ MapSingle \/ PassThrough \/ WriteFile

SpecSingle == InitSingle /\ [][NextSingle]_vars

SpecMulti == InitMulti /\ [][NextMulti]_vars

SpecNone == InitNone /\ [][NextNone]_vars

Spec == Init /\ [][Next]_vars

\* two rules of the catalogue, one rewriting each chunk and one deleting the
\* chunks that are "a"
FewRules ==
    {[constraint |-> "always", update |-> "upper"],
     [constraint |-> "chunkIsA", update |-> "delete"]}

FewRuleLists == UNION {[1..k -> FewRules] : k \in 1..MaxRules}

\* every single-rule call, every call without a rule, and the multi-rule
\* calls over the two rules
InitEveryMode ==
    InitWith(SingleOptions \cup NoneOptions \cup
             {WithRules(c, FALSE, TRUE, ups, FALSE, FALSE, "never", "identity") :
                 c \in CommonOptions, ups \in FewRuleLists})

SpecEveryMode == InitEveryMode /\ [][Next]_vars

\* three rules of the catalogue that can match the same chunk
DispatchRules ==
    {[constraint |-> "always", update |-> "upper"],
     [constraint |-> "chunkIsA", update |-> "delete"],
     [constraint |-> "indexIsZero", update |-> "prefix"]}

DispatchRuleLists == UNION {[1..k -> DispatchRules] : k \in 1..MaxRules}

\* the shapes the dispatch of index.ts:153-183 tells apart: an updates array
\* with or without a constraint/update pair beside it, and no array with
\* each combination of the two keys; bailOnFirstMatch either way
DispatchOptions ==
    LET common == [separator : SeparatorOptions, removeEmpty : {FALSE},
                   invert : BOOLEAN, preserveInvertedOrder : {FALSE}]
    IN  {WithRules(c, bail, TRUE, ups, pair, pair, "always", "empty") :
            c \in common, bail \in BOOLEAN, ups \in DispatchRuleLists,
            pair \in BOOLEAN}
        \cup
        {WithRules(c, bail, FALSE, <<>>, hasC, hasU, "always", "empty") :
            c \in common, bail \in BOOLEAN, hasC \in BOOLEAN, hasU \in BOOLEAN}

InitDispatch == InitWith(DispatchOptions)

SpecDispatch == InitDispatch /\ [][Next]_vars

\* rules of which a constraint or an update throws on the second chunk
ThrowingRules ==
    {[constraint |-> "always", update |-> "upper"],
     [constraint |-> ThrowsAtOne, update |-> "upper"],
     [constraint |-> "chunkIsA", update |-> ThrowsAtOne]}

ThrowingRuleLists ==
    {ups \in UNION {[1..k -> ThrowingRules] : k \in 1..MaxRules} :
        \E k \in DOMAIN ups :
            ThrowsAtOne \in {ups[k].constraint, ups[k].update}}

\* the calls in which a rule function may throw: the single rule's
\* constraint or update, or those of one rule at least of the updates array
ThrowingOptions ==
    {o \in {WithRules(c, bail, FALSE, <<>>, TRUE, TRUE, con, upd) :
                c \in CommonOptions, bail \in BOOLEAN,
                con \in {"always", "chunkIsA", ThrowsAtOne},
                upd \in {"upper", ThrowsAtOne}} :
        ThrowsAtOne \in {o.constraint, o.update}}
    \cup
    {WithRules(c, FALSE, TRUE, ups, FALSE, FALSE, "never", "identity") :
        c \in CommonOptions, ups \in ThrowingRuleLists}

InitThrowing == InitWith(ThrowingOptions)

NextThrowing == ReadFile \/ MapMulti \/ MapSingle \/ WriteFile

SpecThrowing == InitThrowing /\ [][NextThrowing]_vars

\* rules whose constraint may be a value that is not callable
NonCallableRules ==
    [constraint : {"always", NotAFunction}, update : {"upper", "delete"}]

NonCallableRuleLists ==
    {ups \in UNION {[1..k -> NonCallableRules] : k \in 1..MaxRules} :
        \E k \in DOMAIN ups : ~IsFunction(ups[k].constraint)}

\* the calls in which a constraint is not callable: the single rule's, or
\* that of one rule at least of the updates array
NonCallableOptions ==
    {WithRules(c, bail, FALSE, <<>>, TRUE, TRUE, NotAFunction, upd) :
        c \in CommonOptions, bail \in BOOLEAN, upd \in {"upper", "delete"}}
    \cup
    {WithRules(c, FALSE, TRUE, ups, FALSE, FALSE, "never", "identity") :
        c \in CommonOptions, ups \in NonCallableRuleLists}

InitNonCallable == InitWith(NonCallableOptions)

NextNonCallable == ReadFile \/ MapMulti \/ MapSingle \/ WriteFile

SpecNonCallable == InitNonCallable /\ [][NextNonCallable]_vars

\* the limits tried: below one, within the chunk count and beyond it
LimitValues == (0 - 1)..(MaxLen + 2)

DebugOutputLimits ==
    {NoLimit} \cup {NumberLimit(n) : n \in LimitValues}
    \cup {RangeLimit(s, e) : s \in LimitValues, e \in LimitValues}

WithDebug(o, lim) == [o EXCEPT !.debug = TRUE, !.debugOutputLimit = lim]

\* one call of each rule shape, debug off
QuietOptions ==
    LET common == [separator : SeparatorOptions, removeEmpty : {FALSE},
                   invert : BOOLEAN, preserveInvertedOrder : {FALSE}]
    IN  {WithRules(c, FALSE, FALSE, <<>>, TRUE, TRUE, "chunkIsA", "upper") :
            c \in common}
        \cup
        {WithRules(c, FALSE, TRUE,
                   <<[constraint |-> "always", update |-> "prefix"]>>,
                   FALSE, FALSE, "never", "identity") : c \in common}
        \cup
        {WithRules(c, FALSE, FALSE, <<>>, FALSE, FALSE, "never", "identity") :
            c \in common}

\* the same calls with debug: true and each limit
DebugOptions ==
    QuietOptions \cup
    {WithDebug(o, lim) : o \in QuietOptions, lim \in DebugOutputLimits}

InitCall == InitWith(DebugOptions)

\* the whole call: the read may fail, and the debug block runs when asked
NextCall ==
    \/ ReadFile
    \/ ReadFileFails
    \/ PrintChunks
    \/ MapMulti
    \/ MapSingle
    \/ PassThrough
    \/ WriteFile

SpecCall == InitCall /\ [][NextCall]_vars

\* the pieces the contents below are made of: the marker of getChunks and
\* the characters of Chars
Pieces == {Token} \cup {<<ch>> : ch \in Chars}

\* contents that may contain the marker
TokenContents ==
    {Concat(ps) : ps \in UNION {[1..k -> Pieces] : k \in 0..(MaxLen - 1)}}

\* the debug calls of each rule shape over such contents
InitTokenCall ==
    /\ disk \in TokenContents
    /\ opts \in {WithDebug(o, NoLimit) : o \in QuietOptions}
    /\ pc = "start"
    /\ fileContent = <<>>
    /\ chunks = <<>>
    /\ idx = 0
    /\ bailed = FALSE
    /\ updatedChunks = <<>>
    /\ finalChunks = <<>>
    /\ log = <<>>
    /\ io = <<>>
    /\ preview = NoPreview

SpecTokenCall == InitTokenCall /\ [][NextCall]_vars

\* index.ts:207-213: a call of the exported getChunks(content, sep,
\* normalize?); fileContent holds the content argument, opts the other two,
\* chunks the value returned
GetChunksArguments ==
    [separator : {<<"n">>, <<"n", "n">>, <<"a", "n">>}, normalize : BOOLEAN]

InitGetChunks ==
    /\ fileContent \in Contents
    /\ opts \in GetChunksArguments
    /\ pc = "getChunks"
    /\ disk = <<>>
    /\ chunks = <<>>
    /\ idx = 0
    /\ bailed = FALSE
    /\ updatedChunks = <<>>
    /\ finalChunks = <<>>
    /\ log = <<>>
    /\ io = <<>>
    /\ preview = NoPreview

CallGetChunks ==
    /\ pc = "getChunks"
    /\ chunks' = GetChunks(fileContent, opts.separator, opts.normalize)
    /\ pc' = "returned"
    /\ UNCHANGED <<disk, opts, fileContent, idx, bailed, updatedChunks,
                   finalChunks, log, io, preview>>

SpecGetChunks == InitGetChunks /\ [][CallGetChunks]_vars

\* ------------------------------------------------- vocabulary of the claims

\* the chunks of the content read, in file order
FileChunks == Split(fileContent, Separator(opts))

NumChunks == Len(FileChunks)

FilePositions == 1..NumChunks

\* the zero-based processing index of the chunk at file position p
ProcIndex(p) == IF ShouldInvertChunks(opts) THEN NumChunks - p ELSE p - 1

\* the context the engine builds for the chunk at file position p
ContextAt(p) == CreateContext(InitialChunks(fileContent, opts), ProcIndex(p))

\* the single rule's constraint holds for the chunk at file position p
Holds(p) ==
    /\ IsFunction(opts.constraint)
    /\ ConstraintFn(opts.constraint, ContextAt(p), Separator(opts))

\* what the single rule's update returns for the chunk at file position p
Updated(p) == UpdateFn(opts.update, ContextAt(p), Separator(opts))

\* the result the engine recorded for the chunk at file position p
ResultAt(p) == updatedChunks[ProcIndex(p) + 1]

Calls(fn) == SelectSeq(log, LAMBDA e : e.fn = fn)

\* the texts of f[p], p running over the positions of 1..n that pass Keep
TextsWhere(n, f(_), Keep(_)) ==
    LET ps == SelectSeq([p \in 1..n |-> p], Keep)
    IN  [i \in 1..Len(ps) |-> f(ps[i]).text]

Mapped == pc \in {"write", "done"}

\* a result that is written: not a deletion marker and, with removeEmpty, not
\* the empty string
Survives(r) == r.kind = "text" /\ (RemoveEmpty(opts) => r.text # <<>>)

\* ------------------------------------------------------------------- C1

\* C1: a single-rule run whose constraint is always false, with removeEmpty,
\* invert and bailOnFirstMatch at their defaults, writes back exactly the
\* content it read; and joining the plain split of any content with the
\* separator gives the content back.
C1_RoundTrip ==
    /\ Join(Split(disk, Separator(opts)), Separator(opts)) = disk
    /\ ( /\ pc = "done"
         /\ Mode(opts) = "single"
         /\ opts.constraint = "never"
         /\ ~RemoveEmpty(opts)
         /\ ~ShouldInvertChunks(opts)
         /\ ~ShouldBailOnFirstMatch(opts) )
       => disk = fileContent

\* a never-matching run over "nnn" split on "nn": an empty chunk, then "n"
C1_Witness ==
    /\ pc = "done"
    /\ Mode(opts) = "single"
    /\ opts.constraint = "never"
    /\ ~RemoveEmpty(opts)
    /\ ~ShouldInvertChunks(opts)
    /\ ~ShouldBailOnFirstMatch(opts)
    /\ fileContent = <<"n", "n", "n">>
    /\ chunks = << <<>>, <<"n">> >>
    /\ disk = fileContent

\* ------------------------------------------------------------------- C2

\* C2: in single-rule mode with bailOnFirstMatch, update is invoked at most
\* once, on the first chunk in processing order whose constraint is true;
\* every later chunk passes through unchanged and constraint is not invoked
\* for it. With invert and without preserveInvertedOrder that chunk is the
\* last matching chunk in file order.
C2_BailMonotonic ==
    ( /\ Mode(opts) = "single"
      /\ ShouldBailOnFirstMatch(opts)
      /\ IsFunction(opts.constraint)
      /\ pc \in {"map", "write", "done"} )
    => LET ups == Calls("update")
           cons == Calls("constraint")
           matching == {j \in 0..(Len(chunks) - 1) :
                          ConstraintFn(opts.constraint, CreateContext(chunks, j),
                                       Separator(opts))}
       IN  /\ Len(ups) <= 1
           /\ (Mapped /\ matching # {}) => Len(ups) = 1
           /\ Len(ups) = 1 =>
                LET k == ups[1].index
                IN  /\ k \in matching
                    /\ \A j \in matching : k <= j
                    /\ updatedChunks[k + 1] =
                         UpdateFn(opts.update, CreateContext(chunks, k), Separator(opts))
                    /\ \A j \in (k + 1)..(idx - 1) :
                         updatedChunks[j + 1] = Text(chunks[j + 1])
                    /\ \A e \in 1..Len(cons) : cons[e].index <= k
                    /\ (ShouldInvertChunks(opts) /\ ~ShouldPreserveInvertedOrder(opts))
                       => /\ ups[1].chunk = FileChunks[NumChunks - k]
                          /\ Holds(NumChunks - k)
                          /\ \A q \in FilePositions : Holds(q) => q <= NumChunks - k

\* an inverted bailing run in which two chunks match and only the last chunk
\* of the file was upper-cased
C2_Witness ==
    /\ pc = "done"
    /\ Mode(opts) = "single"
    /\ ShouldBailOnFirstMatch(opts)
    /\ ShouldInvertChunks(opts)
    /\ ~ShouldPreserveInvertedOrder(opts)
    /\ opts.constraint = "chunkIsA"
    /\ opts.update = "upper"
    /\ FileChunks = << <<"a">>, <<"a">> >>
    /\ Len(Calls("update")) = 1
    /\ Len(Calls("constraint")) = 1
    /\ finalChunks = << <<"a">>, <<"A">> >>

\* ------------------------------------------------------------------- C3

\* the single rule deletes the chunk at file position p
Deleted(p) == Holds(p) /\ Updated(p).kind = "delete"

\* what single-rule evaluation makes of the chunk at file position p
Outcome(p) == IF Holds(p) THEN Updated(p) ELSE Text(FileChunks[p])

\* C3 as stated: in single-rule mode every chunk whose constraint is true and
\* whose update returns the deletion marker is absent from what is written,
\* and all the remaining chunks are written in their original relative order,
\* whatever removeEmpty and invert are (bailOnFirstMatch and
\* preserveInvertedOrder at their defaults).
C3_AsStated ==
    ( /\ pc = "done"
      /\ Mode(opts) = "single"
      /\ ~ShouldBailOnFirstMatch(opts)
      /\ ~ShouldPreserveInvertedOrder(opts)
      /\ \E p \in FilePositions : Deleted(p) )
    => disk = Join(TextsWhere(NumChunks, Outcome, LAMBDA p : ~Deleted(p)),
                   Separator(opts))

\* C3, amended: the deleted chunks are absent and the remaining results are
\* written in their original relative order, except that with removeEmpty the
\* remaining results that are the empty string are dropped too.
C3_Deletion ==
    ( /\ pc = "done"
      /\ Mode(opts) = "single"
      /\ ~ShouldBailOnFirstMatch(opts)
      /\ ~ShouldPreserveInvertedOrder(opts) )
    => /\ finalChunks =
            TextsWhere(NumChunks, Outcome,
                       LAMBDA p : /\ ~Deleted(p)
                                  /\ (RemoveEmpty(opts) => Outcome(p).text # <<>>))
       /\ disk = Join(finalChunks, Separator(opts))

\* an inverted removeEmpty run that deletes a chunk and leaves an empty and a
\* non-empty chunk behind
C3_Witness ==
    /\ pc = "done"
    /\ Mode(opts) = "single"
    /\ ~ShouldBailOnFirstMatch(opts)
    /\ ~ShouldPreserveInvertedOrder(opts)
    /\ ShouldInvertChunks(opts)
    /\ RemoveEmpty(opts)
    /\ opts.update = "delete"
    /\ \E p \in FilePositions : Deleted(p)
    /\ \E p \in FilePositions : ~Deleted(p) /\ FileChunks[p] = <<>>
    /\ \E p \in FilePositions : ~Deleted(p) /\ FileChunks[p] # <<>>
    /\ finalChunks # <<>>

\* ------------------------------------------------------------------- C4

\* rule k of the updates list matches the chunk at file position p
RuleHolds(k, p) ==
    /\ IsFunction(opts.updates[k].constraint)
    /\ ConstraintFn(opts.updates[k].constraint, ContextAt(p), Separator(opts))

RuleUpdated(k, p) == UpdateFn(opts.updates[k].update, ContextAt(p), Separator(opts))

\* some matching rule of the list returns the deletion marker at position p
SomeRuleDeletes(p) ==
    \E k \in 1..Len(opts.updates) : RuleHolds(k, p) /\ RuleUpdated(k, p).kind = "delete"

\* C4: in multi-rule mode a chunk for which some matching rule returns the
\* deletion marker is absent from what is written, whichever other rules
\* match it: the written content is the join of the results of the other
\* chunks.
C4_DeletionMulti ==
    (pc = "done" /\ Mode(opts) = "multi")
    => disk = Join(TextsWhere(NumChunks, ResultAt,
                              LAMBDA p : ~SomeRuleDeletes(p) /\ Survives(ResultAt(p))),
                   Separator(opts))

\* ------------------------------------------------------------------- C5

\* the updates of the matching rules applied one after the other, each to the
\* output of the one before
RECURSIVE Composed(_, _, _)
Composed(k, p, cur) ==
    IF k > Len(opts.updates) THEN cur
    ELSE IF RuleHolds(k, p)
    THEN Composed(k + 1, p,
                  UpdateFn(opts.updates[k].update,
                           [ContextAt(p) EXCEPT !.chunk = cur.text], Separator(opts)))
    ELSE Composed(k + 1, p, cur)

\* C5: in multi-rule mode, when several rules match a chunk their updates
\* compose in list order (for rules that return text): the result reflects
\* every matching rule's transformation.
C5_Composition ==
    ( /\ pc = "done"
      /\ Mode(opts) = "multi"
      /\ \A k \in 1..Len(opts.updates) : opts.updates[k].update # "delete" )
    => \A p \in FilePositions : ResultAt(p) = Composed(1, p, Text(FileChunks[p]))

\* ------------------------------------------------------------------- C6

\* some rule was applied to the chunk at file position p
Matched(p) ==
    CASE Mode(opts) = "multi" -> \E k \in 1..Len(opts.updates) : RuleHolds(k, p)
      [] Mode(opts) = "single" -> Holds(p)
      [] OTHER -> FALSE

ChunkOnlyConstraint(kind) == kind \in {"always", "never", "chunkIsA"}

ChunkOnlyUpdate(kind) == kind \in {"identity", "upper", "prefix", "delete", "empty"}

ReadsOnlyChunk(o) ==
    CASE Mode(o) = "multi" ->
           \A k \in 1..Len(o.updates) :
               /\ ChunkOnlyConstraint(o.updates[k].constraint)
               /\ ChunkOnlyUpdate(o.updates[k].update)
      [] Mode(o) = "single" ->
           ChunkOnlyConstraint(o.constraint) /\ ChunkOnlyUpdate(o.update)
      [] OTHER -> TRUE

Forward(o) == [o EXCEPT !.invert = FALSE]

\* C7 as stated: for any content and any rule set, with bailOnFirstMatch off,
\* a run with invert and without preserveInvertedOrder writes what the run
\* with invert off writes.
C7_AsStated ==
    ( /\ pc = "done"
      /\ ShouldInvertChunks(opts)
      /\ ~ShouldPreserveInvertedOrder(opts)
      /\ ~ShouldBailOnFirstMatch(opts) )
    => disk = Rewrite(fileContent, Forward(opts))

\* C7, amended: the two runs write the same content when the constraints and
\* updates read only the chunk of the context (not index, prevChunk,
\* nextChunk).
C7_InvertRestoreIdentity ==
    ( /\ pc = "done"
      /\ ShouldInvertChunks(opts)
      /\ ~ShouldPreserveInvertedOrder(opts)
      /\ ~ShouldBailOnFirstMatch(opts)
      /\ ReadsOnlyChunk(opts) )
    => disk = Rewrite(fileContent, Forward(opts))

\* an inverted run that upper-cases the "a" of the lines "aa", "a" and leaves
\* the other line
C7_Witness ==
    /\ pc = "done"
    /\ ShouldInvertChunks(opts)
    /\ ~ShouldPreserveInvertedOrder(opts)
    /\ ~ShouldBailOnFirstMatch(opts)
    /\ Mode(opts) = "single"
    /\ opts.constraint = "chunkIsA"
    /\ opts.update = "upper"
    /\ FileChunks = << <<"a", "a">>, <<"a">> >>
    /\ disk = <<"a", "a", "n", "A">>
    /\ disk = Rewrite(fileContent, Forward(opts))

\* ------------------------------------------------------------------- C8

\* C8: the map visits the chunks one by one, each exactly once: in reverse
\* file order with invert (index 0 is the last chunk of the file), in file
\* order without; constraint and update are invoked in that order, with the
\* chunk of the visit.
C8_ProcessingOrder ==
    (pc \in {"map", "write", "done"} /\ Mode(opts) # "none")
    => LET visits == Calls("createContext")
           cons == Calls("constraint")
           fc == FileChunks
           n == Len(fc)
           inv == ShouldInvertChunks(opts)
       IN  /\ Len(visits) = idx
           /\ Mapped => Len(visits) = n
           /\ \A k \in 1..Len(visits) :
                /\ visits[k].index = k - 1
                /\ visits[k].chunk = fc[IF inv THEN n + 1 - k ELSE k]
           /\ \A e \in 1..Len(log) :
                /\ log[e].chunk = fc[IF inv THEN n - log[e].index ELSE log[e].index + 1]
                /\ e > 1 => log[e - 1].index <= log[e].index
           /\ ( /\ Mapped
                /\ Mode(opts) = "single"
                /\ ~ShouldBailOnFirstMatch(opts) )
              => /\ Len(cons) = n
                 /\ \A k \in 1..Len(cons) : cons[k].index = k - 1

\* the inverted run over the lines "a", "aa" that called update on "aa" first
C8_Witness ==
    /\ pc = "done"
    /\ ShouldInvertChunks(opts)
    /\ Mode(opts) = "single"
    /\ opts.constraint = "always"
    /\ FileChunks = << <<"a">>, <<"a", "a">> >>
    /\ Len(Calls("update")) = 2
    /\ Calls("update")[1].chunk = <<"a", "a">>
    /\ Calls("update")[1].index = 0
    /\ Calls("update")[2].chunk = <<"a">>

\* ------------------------------------------------------------------- C9

\* C9: with invert and preserveInvertedOrder the written content is the
\* surviving results in reverse file order, joined by the separator; when the
\* update returns each chunk unchanged the chunks of the file are written in
\* exactly the reverse order (less the empty ones under removeEmpty).
C9_PreservedInvertedOrder ==
    ( /\ pc = "done"
      /\ ShouldInvertChunks(opts)
      /\ ShouldPreserveInvertedOrder(opts) )
    => /\ finalChunks =
            Reverse(TextsWhere(NumChunks, ResultAt, LAMBDA p : Survives(ResultAt(p))))
       /\ disk = Join(finalChunks, Separator(opts))
       /\ (Mode(opts) = "single" /\ opts.update = "identity")
          => /\ finalChunks =
                  Reverse(SelectSeq(FileChunks,
                                    LAMBDA c : RemoveEmpty(opts) => c # <<>>))
             /\ ~RemoveEmpty(opts) => finalChunks = Reverse(FileChunks)

\* the run that turns the lines "a", "aa" into "aa", "a"
C9_Witness ==
    /\ pc = "done"
    /\ ShouldInvertChunks(opts)
    /\ ShouldPreserveInvertedOrder(opts)
    /\ Mode(opts) = "single"
    /\ opts.constraint = "always"
    /\ opts.update = "identity"
    /\ fileContent = <<"a", "n", "a", "a">>
    /\ disk = <<"a", "a", "n", "a">>

\* ------------------------------------------------------------------ C10

NeverInstead(o) ==
    [o EXCEPT
        !.constraint = IF IsFunction(@) THEN @ ELSE "never",
        !.updates = [k \in DOMAIN @ |->
                        IF IsFunction(@[k].constraint) THEN @[k]
                        ELSE [@[k] EXCEPT !.constraint = "never"]]]

\* the rules (0 for the single rule) whose constraint is not callable
NonCallableRuleNumbers(o) ==
    IF Mode(o) = "single"
    THEN IF IsFunction(o.constraint) THEN {} ELSE {0}
    ELSE {k \in DOMAIN o.updates : ~IsFunction(o.updates[k].constraint)}

\* C11: a rule whose constraint is not callable is treated as never
\* matching and the call completes without raising, in single-rule mode as
\* for any rule of multi-rule mode: nothing is thrown, the rule's update is
\* never invoked, and what is written is what the same call writes with a
\* constraint that never matches in its place.
C11_NonCallableTolerated ==
    /\ pc # "threw"
    /\ \A e \in DOMAIN log :
          log[e].fn = "update" => log[e].rule \notin NonCallableRuleNumbers(opts)
    /\ pc = "done" => disk = Rewrite(fileContent, NeverInstead(opts))

\* ------------------------------------------------------------------ C12
\* the calls of the file system with operation op, in the order made
IoOf(op) == SelectSeq(io, LAMBDA e : e.op = op)

\* C12: the file is read exactly once, before any constraint or update is
\* invoked, and written at most once, after all chunks have been evaluated
\* and no rule is invoked after the write; if the read fails the error
\* propagates, no rule is invoked and no write occurs.
C12_ReadOnceWriteOnce ==
    LET reads == IoOf("readFileSync")
        writes == IoOf("writeFileSync")
    IN  /\ Len(reads) = (IF pc = "start" THEN 0 ELSE 1)
        /\ Len(writes) = (IF pc = "done" THEN 1 ELSE 0)
        /\ \A r \in DOMAIN reads : reads[r].calls = 0 /\ io[1] = reads[r]
        /\ log # <<>> => Len(reads) = 1 /\ reads[1].ok
        /\ \A w \in DOMAIN writes :
              /\ reads[1].ok
              /\ writes[w].visited = Len(chunks)
              /\ writes[w].calls = Len(log)
              /\ io[Len(io)] = writes[w]
        /\ \A r \in DOMAIN reads :
              ~reads[r].ok => pc = "threw" /\ log = <<>> /\ writes = <<>>

C12_Witness ==
    /\ pc = "done"
    /\ Len(chunks) >= 2
    /\ Len(log) >= 2
    /\ Len(io) = 2

\* ------------------------------------------------------------------ C13
\* the texts of the recorded results that pass Keep, in processing order
KeptTexts(Keep(_)) ==
    LET kept == SelectSeq(updatedChunks, Keep)
    IN  [i \in 1..Len(kept) |-> kept[i].text]

\* a processing-order sequence in the order it is written: file order, or
\* the inverted order when preserveInvertedOrder keeps it
InWrittenOrder(s) ==
    IF ShouldInvertChunks(opts) /\ ~ShouldPreserveInvertedOrder(opts)
    THEN Reverse(s)
    ELSE s

\* C13: with removeEmpty=true no empty-string chunk is written, be it an
\* unmatched original chunk or the result of an update, while every
\* non-empty string result is kept, in order; with removeEmpty=false the
\* empty-string results are kept and only the deletion markers are dropped.
C13_RemoveEmpty ==
    pc = "done" =>
        /\ RemoveEmpty(opts) =>
              /\ \A i \in DOMAIN finalChunks : finalChunks[i] # <<>>
              /\ finalChunks =
                    InWrittenOrder(KeptTexts(
                        LAMBDA r : r.kind = "text" /\ r.text # <<>>))
        /\ ~RemoveEmpty(opts) =>
              finalChunks = InWrittenOrder(KeptTexts(LAMBDA r : r.kind = "text"))
        /\ disk = Join(finalChunks, Separator(opts))

\* a removeEmpty run in which an update returned the empty string, an
\* unmatched chunk was empty, and a non-empty chunk was written
C13_Witness ==
    /\ pc = "done"
    /\ RemoveEmpty(opts)
    /\ opts.update = "empty"
    /\ \E p \in FilePositions :
          Holds(p) /\ FileChunks[p] # <<>> /\ ResultAt(p) = Text(<<>>)
    /\ \E p \in FilePositions : ~Holds(p) /\ FileChunks[p] = <<>>
    /\ finalChunks # <<>>
    /\ Len(finalChunks) < NumChunks - 1

\* ------------------------------------------------------------------ C14
\* The separator option <<>> is the empty string (an absent option takes the
\* same branch of index.ts:18).

\* C14 as stated: a call whose separator option is the empty string is
\* rejected, the file is not rewritten.
C14_AsStated == opts.separator = <<>> => pc # "done"

\* C14, amended: a call whose separator option is the empty string is not
\* rejected: it is processed with the newline, the default separator -- the
\* content is split on newlines, the results are joined with newlines, and
\* what is written is what the same call with separator "\n" writes.
C14_EmptySeparatorDefaults ==
    opts.separator = <<>> =>
        /\ pc \in {"map", "write", "done"} =>
              chunks = IF ShouldInvertChunks(opts)
                       THEN Reverse(Split(fileContent, Newline))
                       ELSE Split(fileContent, Newline)
        /\ pc = "done" =>
              /\ disk = Join(finalChunks, Newline)
              /\ disk = Rewrite(fileContent, [opts EXCEPT !.separator = Newline])

\* a finished run with the empty separator over a content of several lines,
\* one of them rewritten
C14_Witness ==
    /\ pc = "done"
    /\ opts.separator = <<>>
    /\ Len(chunks) >= 2
    /\ disk # fileContent
    /\ Len(finalChunks) >= 2

\* ------------------------------------------------------------------ C15
\* the options with debug off and no debugOutputLimit
Quiet(o) == [o EXCEPT !.debug = FALSE, !.debugOutputLimit = NoLimit]

\* C15: debug does not influence the rewrite: the written content and the
\* sequence of constraint and update invocations are those of the same call
\* with debug off, whatever debugOutputLimit is, and the debug preview never
\* raises (a run throws only when the read failed).
C15_DebugIsInert ==
    /\ pc \in {"map", "write", "done"} =>
          /\ chunks = InitialChunks(fileContent, Quiet(opts))
          /\ preview.printed = opts.debug
    /\ pc \in {"write", "done"} =>
          log = CallsOf(InitialChunks(fileContent, Quiet(opts)), Quiet(opts))
    /\ pc = "done" => disk = Rewrite(fileContent, Quiet(opts))
    /\ pc = "threw" => ~io[1].ok

\* a finished debug run that printed a truncated preview, invoked rules and
\* changed the content
C15_Witness ==
    /\ pc = "done"
    /\ opts.debug
    /\ preview.printed
    /\ preview.notice.kind = "limited"
    /\ Len(preview.shown) >= 2
    /\ Len(log) >= 2
    /\ disk # fileContent

\* ------------------------------------------------------------------ C16
\* the options with preserveInvertedOrder the other way round
OtherPreserve(o) == [o EXCEPT !.preserveInvertedOrder = ~@]

\* C16: preserveInvertedOrder has no effect unless invert is true: with
\* invert=false the chunks are processed in file order and the invocations
\* made and the content written are those of the same call with the other
\* value of preserveInvertedOrder, the results being written in file order.
C16_PreserveNeedsInvert ==
    ~ShouldInvertChunks(opts) =>
        /\ pc \in {"map", "write", "done", "threw"} =>
              chunks = Split(fileContent, Separator(opts))
        /\ pc \in {"write", "done", "threw"} =>
              log = CallsOf(chunks, OtherPreserve(opts))
        /\ pc = "done" =>
              /\ finalChunks = KeptTexts(Survives)
              /\ disk = Rewrite(fileContent, OtherPreserve(opts))

\* a finished run with preserveInvertedOrder and without invert that wrote
\* several chunks, not all alike, after invoking an update
C16_Witness ==
    /\ pc = "done"
    /\ ~ShouldInvertChunks(opts)
    /\ ShouldPreserveInvertedOrder(opts)
    /\ Len(finalChunks) >= 2
    /\ finalChunks # Reverse(finalChunks)
    /\ Calls("update") # <<>>

\* ------------------------------------------------------------------ C17
\* s begins with sep
BeginsWith(s, sep) == Len(s) >= Len(sep) /\ SubSeq(s, 1, Len(sep)) = sep

\* s ends with sep
EndsWith(s, sep) ==
    Len(s) >= Len(sep) /\ SubSeq(s, Len(s) - Len(sep) + 1, Len(s)) = sep

\* C17 as stated: getChunks without normalize leaves every separator at the
\* end of the chunk that precedes it: every chunk but the last ends with the
\* separator and no chunk begins with it.
C17_AsStated ==
    (pc = "returned" /\ ~opts.normalize) =>
        /\ \A k \in 1..(Len(chunks) - 1) : EndsWith(chunks[k], opts.separator)
        /\ \A k \in DOMAIN chunks : ~BeginsWith(chunks[k], opts.separator)

\* C17, amended: getChunks without normalize leaves every separator at the
\* beginning of the chunk that follows it: the first chunk is the first chunk
\* of the plain split, every later chunk is the separator followed by the
\* corresponding chunk of the plain split (so every chunk but the first
\* begins with the separator), and the chunks concatenated are the content.
C17_SeparatorLeads ==
    (pc = "returned" /\ ~opts.normalize) =>
        LET plain == Split(fileContent, opts.separator)
        IN  /\ Len(chunks) = Len(plain)
            /\ chunks[1] = plain[1]
            /\ \A k \in 2..Len(chunks) :
                  /\ chunks[k] = opts.separator \o plain[k]
                  /\ BeginsWith(chunks[k], opts.separator)
            /\ Concat(chunks) = fileContent

\* a call that returned three chunks, the second one just the separator
C17_Witness ==
    /\ pc = "returned"
    /\ ~opts.normalize
    /\ Len(chunks) = 3
    /\ chunks[1] # <<>>
    /\ chunks[2] = opts.separator

\* ------------------------------------------------------------------ C18
\* v brought into lo..hi
Clamp(v, lo, hi) == IF v < lo THEN lo ELSE IF v > hi THEN hi ELSE v

\* the chunks the debug block counts and shows
PreviewChunks == GetChunks(fileContent, Separator(opts), FALSE)

\* C18: for a debugOutputLimit { start, end } of any integers the displayed
\* range [X, Y] is the input range clamped to 1..totalChunks and swapped if
\* reversed, so 1 <= X <= Y <= totalChunks; exactly Y - X + 1 chunks are
\* shown, numbered X..Y; the notice reports X, Y, totalChunks and Y - X + 1;
\* and nothing is raised.
C18_RangeClamped ==
    (preview.printed /\ opts.debugOutputLimit.kind = "range") =>
        LET T == Len(PreviewChunks)
            s == Clamp(opts.debugOutputLimit.start, 1, T)
            e == Clamp(opts.debugOutputLimit.end, 1, T)
            X == IF e < s THEN e ELSE s
            Y == IF e < s THEN s ELSE e
        IN  /\ 1 <= X /\ X <= Y /\ Y <= T
            /\ preview.totalChunks = T
            /\ preview.notice = [kind |-> "showing", from |-> X, to |-> Y,
                                 of |-> T, shown |-> Y - X + 1]
            /\ Len(preview.shown) = Y - X + 1
            /\ \A k \in DOMAIN preview.shown :
                  /\ preview.shown[k].number = X + k - 1
                  /\ preview.shown[k].chunk = PreviewChunks[X + k - 1]
            /\ pc # "threw"

\* a preview of a reversed range that reaches beyond both ends of three
\* chunks or more
C18_Witness ==
    /\ preview.printed
    /\ opts.debugOutputLimit.kind = "range"
    /\ opts.debugOutputLimit.end < 1
    /\ opts.debugOutputLimit.start > preview.totalChunks
    /\ preview.totalChunks >= 3
    /\ Len(preview.shown) = preview.totalChunks

\* ------------------------------------------------------------------ C19
\* C19: for a numeric debugOutputLimit N, a positive integer, and T chunks,
\* exactly min(N, T) chunks are shown, starting from chunk 1; the truncation
\* notice (and the closing line) is printed exactly when T > N, and the
\* number it reports, T - N, is the number of chunks not shown.
C19_NumericLimit ==
    ( /\ preview.printed
      /\ opts.debugOutputLimit.kind = "number"
      /\ opts.debugOutputLimit.n >= 1 ) =>
        LET T == Len(PreviewChunks)
            N == opts.debugOutputLimit.n
        IN  /\ Len(preview.shown) = (IF N < T THEN N ELSE T)
            /\ \A k \in DOMAIN preview.shown :
                  /\ preview.shown[k].number = k
                  /\ preview.shown[k].chunk = PreviewChunks[k]
            /\ preview.notice.kind = "limited" <=> T > N
            /\ preview.trailer.printed <=> T > N
            /\ preview.notice.kind = "limited" =>
                  /\ preview.notice.first = N
                  /\ preview.notice.more = T - N
                  /\ preview.notice.more = T - Len(preview.shown)
                  /\ preview.trailer.more = preview.notice.more

\* a preview of four chunks or more limited to the first two
C19_Witness ==
    /\ preview.printed
    /\ opts.debugOutputLimit = NumberLimit(2)
    /\ preview.totalChunks >= 4
    /\ preview.notice.kind = "limited"
    /\ Len(preview.shown) = 2

\* ------------------------------------------------------------------ C20
\* C20: the sequence in processing order is the original split, reversed
\* under invert, and keeps its length and contents during the whole
\* evaluation; every context handed to createContext, a constraint or an
\* update has, for its index i of that sequence of length n, chunk =
\* sequence[i], prevChunk absent exactly when i = 0 and otherwise
\* sequence[i-1], nextChunk absent exactly when i = n-1 and otherwise
\* sequence[i+1] -- the original texts, whatever was made of the neighbours.
C20_Context ==
    pc \in {"map", "write", "done", "threw"} =>
        LET plain == Split(fileContent, Separator(opts))
            sequence == IF ShouldInvertChunks(opts) THEN Reverse(plain) ELSE plain
            n == Len(sequence)
        IN  /\ chunks = sequence
            /\ \A e \in DOMAIN log :
                  LET c == log[e]
                      i == c.index
                  IN  /\ i \in 0..(n - 1)
                      /\ c.chunk = sequence[i + 1]
                      /\ c.prevChunk.defined <=> i # 0
                      /\ c.prevChunk.defined => c.prevChunk.text = sequence[i]
                      /\ c.nextChunk.defined <=> i # n - 1
                      /\ c.nextChunk.defined => c.nextChunk.text = sequence[i + 2]

\* an update invoked on the second chunk of an inverted sequence after the
\* first, which it is given as prevChunk with its original text, was deleted
C20_Witness ==
    /\ ShouldInvertChunks(opts)
    /\ Len(chunks) >= 3
    /\ Len(updatedChunks) >= 2
    /\ updatedChunks[1] = DeleteChunk
    /\ chunks[1] # <<>>
    /\ chunks[1] # chunks[3]
    /\ \E e \in DOMAIN log :
          /\ log[e].fn = "update"
          /\ log[e].index = 1
          /\ log[e].prevChunk = Defined(chunks[1])
          /\ log[e].nextChunk = Defined(chunks[3])

\* ------------------------------------------------------------------ C21
\* the sequence in processing order: the split of the content read, reversed
\* under invert
Sequence ==
    IF ShouldInvertChunks(opts)
    THEN Reverse(Split(fileContent, Separator(opts)))
    ELSE Split(fileContent, Separator(opts))

\* the rules of the updates array whose constraint holds in the context ctx
MatchingRules(ctx) ==
    {k \in DOMAIN opts.updates :
        ConstraintFn(opts.updates[k].constraint, ctx, Separator(opts))}

\* the invocations expected for one chunk from rule k on: each constraint in
\* list order, followed by the rule's update when it holds
RECURSIVE RuleCallsFrom(_, _)
RuleCallsFrom(ctx, k) ==
    IF k > Len(opts.updates) THEN <<>>
    ELSE <<Call("constraint", ctx, k)>>
         \o (IF k \in MatchingRules(ctx) THEN <<Call("update", ctx, k)>> ELSE <<>>)
         \o RuleCallsFrom(ctx, k + 1)

\* the invocations expected for the chunks of seq from index i on
RECURSIVE ChunkCallsFrom(_, _)
ChunkCallsFrom(seq, i) ==
    IF i >= Len(seq) THEN <<>>
    ELSE LET ctx == CreateContext(seq, i)
         IN  <<Call("createContext", ctx, 0)>> \o RuleCallsFrom(ctx, 1)
             \o ChunkCallsFrom(seq, i + 1)

RuleCalls == SelectSeq(log, LAMBDA e : e.fn \in {"constraint", "update"})

\* C22: when the options carry an updates array, with or without a
\* constraint/update pair beside it, multi-rule mode is used: the top-level
\* constraint and update are never invoked and bailOnFirstMatch has no
\* effect; single-rule mode is used only when updates is missing or not an
\* array and both the constraint and the update key are present; otherwise
\* no rule is invoked.
C22_DispatchPrecedence ==
    /\ opts.updatesIsArray =>
          /\ \A e \in DOMAIN RuleCalls : RuleCalls[e].rule \in DOMAIN opts.updates
          /\ ~bailed
          /\ Mapped => log = ChunkCallsFrom(Sequence, 0)
          /\ pc = "done" =>
                /\ disk = Rewrite(fileContent, [opts EXCEPT !.bailOnFirstMatch = ~@])
                /\ disk = Rewrite(fileContent,
                                  [opts EXCEPT !.hasConstraint = FALSE,
                                               !.hasUpdate = FALSE])
    /\ (\E e \in DOMAIN RuleCalls : RuleCalls[e].rule = 0) =>
          ~opts.updatesIsArray /\ opts.hasConstraint /\ opts.hasUpdate
    /\ (~opts.updatesIsArray /\ opts.hasConstraint /\ opts.hasUpdate /\ Mapped) =>
          /\ RuleCalls # <<>>
          /\ log = SingleCallsFrom(Sequence, 0, opts, FALSE)
    /\ (~opts.updatesIsArray /\ ~(opts.hasConstraint /\ opts.hasUpdate)) =>
          log = <<>>

\* a finished run with an updates array, a constraint/update pair and
\* bailOnFirstMatch, in which two chunks were rewritten by the array's rules
C22_Witness ==
    /\ pc = "done"
    /\ opts.updatesIsArray
    /\ opts.hasConstraint
    /\ opts.hasUpdate
    /\ ShouldBailOnFirstMatch(opts)
    /\ Len(Calls("update")) >= 2
    /\ Len(finalChunks) >= 2
    /\ disk # fileContent

\* ------------------------------------------------------------------ C23
\* the kind of the function invoked by the call e of the log
InvokedKind(e) ==
    IF e.rule = 0
    THEN (IF e.fn = "constraint" THEN opts.constraint ELSE opts.update)
    ELSE (IF e.fn = "constraint" THEN opts.updates[e.rule].constraint
          ELSE opts.updates[e.rule].update)

\* the invocations of a constraint or an update that raised
RaisedCalls ==
    {e \in DOMAIN log :
        /\ log[e].fn \in {"constraint", "update"}
        /\ InvokedKind(log[e]) = ThrowsAtOne
        /\ log[e].index = 1}

\* C23: if a constraint or update invocation raises during evaluation, in
\* either mode and at any chunk, the error propagates to the caller -- it is
\* the last invocation of the run -- and the file is never written: its
\* content is what it was before the call and no partial result is written.
C23_FailingRuleNoWrite ==
    /\ RaisedCalls # {} =>
          /\ pc = "threw"
          /\ RaisedCalls = {Len(log)}
    /\ pc = "threw" =>
          /\ IoOf("writeFileSync") = <<>>
          /\ disk = fileContent
          /\ finalChunks = <<>>
    /\ pc \in {"write", "done"} => RaisedCalls = {}

\* a multi-rule run that rewrote its first chunk and stopped at the update
\* that raised on the second, the file being as it was
C23_Witness ==
    /\ pc = "threw"
    /\ Mode(opts) = "multi"
    /\ Len(updatedChunks) = 1
    /\ updatedChunks[1] # Text(chunks[1])
    /\ log[Len(log)].fn = "update"
    /\ Len(chunks) >= 3
    /\ disk = fileContent

\* ------------------------------------------------------------------ C24
\* C24: for every content and separator, content that contains the marker
\* "lofo--" included, the number of chunks the debug preview reports is the
\* number of chunks the rule evaluator processes, and the chunks of
\* getChunks concatenated are the content.
C24_PreviewAgrees ==
    preview.printed =>
        /\ preview.totalChunks = Len(chunks)
        /\ Concat(GetChunks(fileContent, Separator(opts), FALSE)) = fileContent

====
